---- MODULE Spec2Model ----
(***************************************************************************)
(* libdenavit: the AISC effective length factor dispatch                   *)
(* (effective_length_factor.py) and the displacement-controlled uniaxial   *)
(* material test driver (OpenSees/uniaxial_material_analysis.py).          *)
(*                                                                         *)
(* Stiffness ratios G and effective length factors K are floating-point    *)
(* numbers in the source.  Here they are fixed-point integers in tenths    *)
(* (5 is 0.5, 7 is 0.7, 10 is 1.0, 20 is 2.0); the grid of tenths plays    *)
(* the part of the representable doubles, so nextafter moves one grid      *)
(* point.  MaxFinite is the largest finite magnitude of the model and      *)
(* stands for 1e10; inf lies above it.                                     *)
(*                                                                         *)
(* scipy.optimize.brentq is an external library: a call either returns a   *)
(* point of the closed bracket it was given or raises (no sign change      *)
(* across the bracket, no convergence, or an arithmetic error raised by    *)
(* the equation it evaluates).                                             *)
(***************************************************************************)
EXTENDS Integers, Sequences, FiniteSets

VARIABLES
    \* ---- effective_length_factor: one call frame ----
    pc,                 \* position in effective_length_factor
    sidesway,           \* argument
    GA, GB,             \* arguments; reassigned by lines 86-89
    argA, argB,         \* GA and GB as the caller passed them
    case_inf, case_0_inf, case_0, bracket, fcn_with_one_zero, fcn,
    calls,              \* the brentq invocations of this call, in order
    K,                  \* local K (line 97/99/101)
    outcome,            \* how the call ended
    round,              \* 1: the call (c, GA, GB); 2: the call (c, GB, GA)
    first,              \* what the call of round 1 did
    \* ---- uniaxial_material_analysis: one call frame ----
    upc, definition, peak_points, rate_type, rate_value, compression_positive,
    i, j, num_steps, incr, strain, stress,
    integrator,         \* the ops.integrator increments, in order
    disp,               \* ops.nodeDisp(2,1), a rational
    uout                \* how the call ended

elfVars == <<pc, sidesway, GA, GB, argA, argB, case_inf, case_0_inf, case_0,
             bracket, fcn_with_one_zero, fcn, calls, K, outcome, round, first>>
umaVars == <<upc, definition, peak_points, rate_type, rate_value, compression_positive,
             i, j, num_steps, incr, strain, stress, integrator, disp, uout>>
vars == <<elfVars, umaVars>>

\* ------------------------------------------------------------------ bounds
MaxFinite == 40
MaxG == 2
MaxPeak == 1
MaxPeaks == 3
MaxRate == 2

\* ------------------------------------------------------------------ values
None == "None"

\* math.inf: above every finite value of the model
inf == MaxFinite + 1

\* the literal 1e10 (lines 71, 87, 89)
Large == MaxFinite

\* math.nextafter(x, y): the representable value next to x towards y
nextafter(x, y) == IF y < x THEN x - 1 ELSE IF y > x THEN x + 1 ELSE x

Sidesways == {"inhibited", "uninhibited", "braced", ""}
GValues == (-MaxG .. MaxG) \cup {Large, inf, -inf}
Exceptions == {"ValueError", "RuntimeError", "ZeroDivisionError"}

Returned(v) == [kind |-> "return", value |-> v, exc |-> None]
Raised(e) == [kind |-> "raise", value |-> None, exc |-> e]
Running == [kind |-> "running", value |-> None, exc |-> None]

\* ------------------------------------------- effective_length_factor
\* lines 57-75: the per-condition constants, or the ValueError
SelectCaseDefault(s) ==
    IF s = "inhibited"
    THEN [raise |-> FALSE, case_inf |-> 10, case_0_inf |-> 7, case_0 |-> 5,
          bracket |-> <<5, nextafter(10, -inf)>>,
          fcn_with_one_zero |-> "_sidesway_inhibited_one_zero",
          fcn |-> "_sidesway_inhibited"]
    ELSE [raise |-> FALSE, case_inf |-> inf, case_0_inf |-> 20, case_0 |-> 10,
          bracket |-> <<10, Large>>,
          fcn_with_one_zero |-> "_sidesway_uninhibited_one_zero",
          fcn |-> "_sidesway_uninhibited"]
SelectCaseWideBracket(s) ==
    IF s = "inhibited"
    THEN [raise |-> FALSE, case_inf |-> 10, case_0_inf |-> 7, case_0 |-> 5,
          bracket |-> <<5, nextafter(10, inf)>>,
          fcn_with_one_zero |-> "_sidesway_inhibited_one_zero",
          fcn |-> "_sidesway_inhibited"]
    ELSE IF s = "uninhibited"
    THEN [raise |-> FALSE, case_inf |-> inf, case_0_inf |-> 20, case_0 |-> 10,
          bracket |-> <<10, Large>>,
          fcn_with_one_zero |-> "_sidesway_uninhibited_one_zero",
          fcn |-> "_sidesway_uninhibited"]
    ELSE [raise |-> TRUE]
SelectCase(s) ==
    IF s = "inhibited"
    THEN [raise |-> FALSE, case_inf |-> 10, case_0_inf |-> 7, case_0 |-> 5,
          bracket |-> <<5, nextafter(10, -inf)>>,
          fcn_with_one_zero |-> "_sidesway_inhibited_one_zero",
          fcn |-> "_sidesway_inhibited"]
    ELSE IF s = "uninhibited"
    THEN [raise |-> FALSE, case_inf |-> inf, case_0_inf |-> 20, case_0 |-> 10,
          bracket |-> <<10, Large>>,
          fcn_with_one_zero |-> "_sidesway_uninhibited_one_zero",
          fcn |-> "_sidesway_uninhibited"]
    ELSE [raise |-> TRUE]

\* lines 78-83: the quick returns; quick is FALSE when no basic case applies
Quick(v) == [quick |-> TRUE, value |-> v]
NoQuick == [quick |-> FALSE, value |-> None]
BasicCaseSwappedTable(ci, c0i, c0, a, b) ==
    IF a = inf /\ b = inf THEN Quick(ci)
    ELSE IF (a = inf /\ b = 0) \/ (a = 0 /\ b = inf) THEN Quick(c0)
    ELSE IF a = 0 /\ b = 0 THEN Quick(c0i)
    ELSE NoQuick
BasicCase(ci, c0i, c0, a, b) ==
    IF a = inf /\ b = inf THEN Quick(ci)
    ELSE IF (a = inf /\ b = 0) \/ (a = 0 /\ b = inf) THEN Quick(c0i)
    ELSE IF a = 0 /\ b = 0 THEN Quick(c0)
    ELSE NoQuick

\* lines 86-89: infinity becomes the large value; a is GA, b is GB
ReplaceInfinityOnlyA(a, b) == <<IF a = inf THEN Large ELSE a, b>>
ReplaceInfinity(a, b) ==
    <<IF a = inf THEN Large ELSE a, IF b = inf THEN Large ELSE b>>

\* lines 96-101: the brentq invocation: (f, a, b, args)
SolverRequestWrongG(fz, f, br, a, b) ==
    IF a = 0 THEN [f |-> fz, a |-> br[1], b |-> br[2], args |-> <<a>>, status |-> "pending", exc |-> None]
    ELSE IF b = 0 THEN [f |-> fz, a |-> br[1], b |-> br[2], args |-> <<a>>, status |-> "pending", exc |-> None]
    ELSE [f |-> f, a |-> br[1], b |-> br[2], args |-> <<a, b>>,
          status |-> "pending", exc |-> None]
SolverRequestAlwaysFull(fz, f, br, a, b) ==
    IF a = 0 THEN [f |-> fz, a |-> br[1], b |-> br[2], args |-> <<b>>, status |-> "pending", exc |-> None]
    ELSE [f |-> f, a |-> br[1], b |-> br[2], args |-> <<a, b>>,
          status |-> "pending", exc |-> None]
SolverRequest(fz, f, br, a, b) ==
    IF a = 0 THEN [f |-> fz, a |-> br[1], b |-> br[2], args |-> <<b>>, status |-> "pending", exc |-> None]
    ELSE IF b = 0 THEN [f |-> fz, a |-> br[1], b |-> br[2], args |-> <<a>>, status |-> "pending", exc |-> None]
    ELSE [f |-> f, a |-> br[1], b |-> br[2], args |-> <<a, b>>,
          status |-> "pending", exc |-> None]

\* lines 96-103: no handler surrounds brentq, so what it raises leaves the
\* function as it is; br is the bracket in scope
SolverFailureSubstitute(e, br) == Returned(br[1])
SolverFailure(e, br) == Raised(e)

\* what a finished call did, for the comparison with the swapped call
Summary == [outcome |-> outcome, calls |-> calls]

\* no call of uniaxial_material_analysis is in progress
UmaIdle ==
    /\ upc = "idle"
    /\ definition = <<"Elastic", 1, 1>>
    /\ peak_points = <<>>
    /\ rate_type = "None"
    /\ rate_value = 0
    /\ compression_positive = FALSE
    /\ i = 0 /\ j = 0 /\ num_steps = 0
    /\ incr = <<0, 1>>
    /\ strain = <<>> /\ stress = <<>>
    /\ integrator = <<>>
    /\ disp = <<0, 1>>
    /\ uout = Running

\* entry of effective_length_factor(s, a, b)
Enter(s, a, b) ==
    /\ pc = "select"
    /\ sidesway = s
    /\ GA = a /\ GB = b
    /\ argA = a /\ argB = b
    /\ case_inf = None /\ case_0_inf = None /\ case_0 = None
    /\ bracket = <<>>
    /\ fcn_with_one_zero = None /\ fcn = None
    /\ calls = <<>>
    /\ K = None
    /\ outcome = Running

Init ==
    /\ \E s \in Sidesways, a \in GValues, b \in GValues : Enter(s, a, b)
    /\ round = 1
    /\ first = None
    /\ UmaIdle

\* lines 57-75
Select ==
    /\ pc = "select"
    /\ LET c == SelectCase(sidesway) IN
         IF c.raise
         THEN /\ outcome' = Raised("ValueError")
              /\ pc' = "done"
              /\ UNCHANGED <<case_inf, case_0_inf, case_0, bracket,
                             fcn_with_one_zero, fcn>>
         ELSE /\ case_inf' = c.case_inf
              /\ case_0_inf' = c.case_0_inf
              /\ case_0' = c.case_0
              /\ bracket' = c.bracket
              /\ fcn_with_one_zero' = c.fcn_with_one_zero
              /\ fcn' = c.fcn
              /\ pc' = "basic"
              /\ UNCHANGED outcome
    /\ UNCHANGED <<sidesway, GA, GB, argA, argB, calls, K, round, first>>
    /\ UNCHANGED umaVars

\* lines 77-83
CheckBasicCases ==
    /\ pc = "basic"
    /\ LET v == BasicCase(case_inf, case_0_inf, case_0, GA, GB) IN
         IF v.quick
         THEN outcome' = Returned(v.value) /\ pc' = "done"
         ELSE outcome' = outcome /\ pc' = "replace"
    /\ UNCHANGED <<sidesway, GA, GB, argA, argB, case_inf, case_0_inf, case_0,
                   bracket, fcn_with_one_zero, fcn, calls, K, round, first>>
    /\ UNCHANGED umaVars

\* lines 85-89
ChangeInfinity ==
    /\ pc = "replace"
    /\ GA' = ReplaceInfinity(GA, GB)[1]
    /\ GB' = ReplaceInfinity(GA, GB)[2]
    /\ pc' = "solve"
    /\ UNCHANGED <<sidesway, argA, argB, case_inf, case_0_inf, case_0, bracket,
                   fcn_with_one_zero, fcn, calls, K, outcome, round, first>>
    /\ UNCHANGED umaVars

\* lines 96-101: brentq is entered
CallBrentq ==
    /\ pc = "solve"
    /\ calls' = Append(calls,
                       SolverRequest(fcn_with_one_zero, fcn, bracket, GA, GB))
    /\ pc' = "brentq"
    /\ UNCHANGED <<sidesway, GA, GB, argA, argB, case_inf, case_0_inf, case_0,
                   bracket, fcn_with_one_zero, fcn, K, outcome, round, first>>
    /\ UNCHANGED umaVars

\* brentq returns a point of the bracket it was given
BrentqReturns ==
    /\ pc = "brentq"
    /\ \E x \in calls[Len(calls)].a .. calls[Len(calls)].b : K' = x
    /\ calls' = [calls EXCEPT ![Len(calls)].status = "returned"]
    /\ pc' = "return"
    /\ UNCHANGED <<sidesway, GA, GB, argA, argB, case_inf, case_0_inf, case_0,
                   bracket, fcn_with_one_zero, fcn, outcome, round, first>>
    /\ UNCHANGED umaVars

\* brentq raises
BrentqRaises ==
    /\ pc = "brentq"
    /\ \E e \in Exceptions :
         LET r == SolverFailure(e, bracket) IN
           /\ outcome' = r
           /\ K' = IF r.kind = "return" THEN r.value ELSE K
           /\ calls' = [calls EXCEPT ![Len(calls)].status = "raised",
                                     ![Len(calls)].exc = e]
    /\ pc' = "done"
    /\ UNCHANGED <<sidesway, GA, GB, argA, argB, case_inf, case_0_inf, case_0,
                   bracket, fcn_with_one_zero, fcn, round, first>>
    /\ UNCHANGED umaVars

\* line 103
ReturnK ==
    /\ pc = "return"
    /\ outcome' = Returned(K)
    /\ pc' = "done"
    /\ UNCHANGED <<sidesway, GA, GB, argA, argB, case_inf, case_0_inf, case_0,
                   bracket, fcn_with_one_zero, fcn, calls, K, round, first>>
    /\ UNCHANGED umaVars

\* the caller calls again with the two stiffness ratios exchanged
CallSwapped ==
    /\ pc = "done"
    /\ round = 1
    /\ first' = Summary
    /\ round' = 2
    /\ pc' = "select"
    /\ sidesway' = sidesway
    /\ GA' = argB /\ GB' = argA
    /\ argA' = argB /\ argB' = argA
    /\ case_inf' = None /\ case_0_inf' = None /\ case_0' = None
    /\ bracket' = <<>>
    /\ fcn_with_one_zero' = None /\ fcn' = None
    /\ calls' = <<>>
    /\ K' = None
    /\ outcome' = Running
    /\ UNCHANGED umaVars

Next ==
    \/ Select
    \/ CheckBasicCases
    \/ ChangeInfinity
    \/ CallBrentq
    \/ BrentqReturns
    \/ BrentqRaises
    \/ ReturnK
    \/ CallSwapped

Spec == Init /\ [][Next]_vars

\* ------------------------------------------- uniaxial_material_analysis
(***************************************************************************)
(* Displacements, strains and stresses are exact rationals <<num, den>>    *)
(* with den > 0, in lowest terms.  The material is the linear elastic one  *)
(* of definition = ('Elastic', matTag, E): with the unit truss (A = 1,     *)
(* L = 1) and the unit reference load, the pseudo-time ops.getTime() after *)
(* a converged step is the stress E * strain.  plot_stress_strain keeps    *)
(* its default (False): the plot changes nothing that is returned.         *)
(***************************************************************************)
Abs(x) == IF x < 0 THEN -x ELSE x

RECURSIVE GCD(_, _)
GCD(a, b) == IF b = 0 THEN a ELSE GCD(b, a % b)

Norm(q) ==
    LET g == GCD(Abs(q[1]), Abs(q[2]))
        sg == IF q[2] < 0 THEN -1 ELSE 1
    IN  <<(sg * q[1]) \div g, (sg * q[2]) \div g>>
Plus(p, q) == Norm(<<p[1] * q[2] + q[1] * p[2], p[2] * q[2]>>)
Times(k, p) == Norm(<<k * p[1], p[2]>>)

\* math.ceil(n / r) for integers n and r # 0
Ceil(n, r) == IF r > 0 THEN -((-n) \div r) ELSE -(n \div (-r))

RateTypes == {"None", "StrainRate", "Steps", "Cycles"}
RateValues == -1 .. MaxRate
PeakPointLists == UNION {[1 .. n -> -MaxPeak .. MaxPeak] : n \in 0 .. MaxPeaks}

\* lines 87-94: the number of steps between peaks a and b: ok is FALSE when
\* the computation raises exc
NumSteps(rt, rv, a, b) ==
    IF rt = "None" THEN [ok |-> TRUE, n |-> 1, exc |-> None]
    ELSE IF rt = "StrainRate"
    THEN IF rv = 0 THEN [ok |-> FALSE, n |-> 0, exc |-> "ZeroDivisionError"]
         ELSE [ok |-> TRUE, n |-> Ceil(Abs(b - a), rv), exc |-> None]
    ELSE IF rt = "Steps" THEN [ok |-> TRUE, n |-> rv, exc |-> None]
    ELSE [ok |-> FALSE, n |-> 0, exc |-> "Exception"]

\* line 96: the displacement increment of each of the n steps from a to b
IncrementToTarget(a, b, n) == Norm(<<b, n>>)
Increment(a, b, n) == Norm(<<b - a, n>>)

\* lines 80-84 and 101-106: the recorded value, negated when compression is
\* taken positive
Recorded(cp, v) == IF cp THEN Times(-1, v) ELSE v

\* ops.getTime() with the truss at displacement d
GetTime(d) == Times(definition[3], d)

ElfIdle ==
    /\ pc = "idle"
    /\ sidesway = None
    /\ GA = 0 /\ GB = 0 /\ argA = 0 /\ argB = 0
    /\ case_inf = None /\ case_0_inf = None /\ case_0 = None
    /\ bracket = <<>>
    /\ fcn_with_one_zero = None /\ fcn = None
    /\ calls = <<>>
    /\ K = None
    /\ outcome = Running
    /\ round = 1
    /\ first = None

InitUMA ==
    /\ ElfIdle
    /\ upc = "start"
    /\ definition \in {<<"Elastic", 1, 1>>, <<"Elastic", 1, 2>>}
    /\ peak_points \in PeakPointLists
    /\ rate_type \in RateTypes
    /\ rate_value \in RateValues
    /\ compression_positive \in BOOLEAN
    /\ i = 0 /\ j = 0 /\ num_steps = 0
    /\ incr = <<0, 1>>
    /\ strain = <<>> /\ stress = <<>>
    /\ integrator = <<>>
    /\ disp = <<0, 1>>
    /\ uout = Running

\* lines 49-84: the model is built and the first step goes to peak_points[0]
FirstStep ==
    /\ upc = "start"
    /\ IF Len(peak_points) = 0
       THEN /\ uout' = Raised("IndexError")
            /\ upc' = "done"
            /\ UNCHANGED <<integrator, disp, strain, stress>>
       ELSE LET d == Plus(disp, <<peak_points[1], 1>>) IN
            /\ integrator' = <<<<peak_points[1], 1>>>>
            /\ disp' = d
            /\ stress' = <<Recorded(compression_positive, GetTime(d))>>
            /\ strain' = <<Recorded(compression_positive, d)>>
            /\ upc' = "loop"
            /\ UNCHANGED uout
    /\ i' = 0
    /\ UNCHANGED <<definition, peak_points, rate_type, rate_value,
                   compression_positive, j, num_steps, incr>>
    /\ UNCHANGED elfVars

\* lines 86-96: the next pair of peaks, its num_steps and incr
NextPeak ==
    /\ upc = "loop"
    /\ i < Len(peak_points) - 1
    /\ LET a == peak_points[i + 1]
           b == peak_points[i + 2]
           ns == NumSteps(rate_type, rate_value, a, b)
       IN  IF ~ns.ok
           THEN /\ uout' = Raised(ns.exc)
                /\ upc' = "done"
                /\ UNCHANGED <<num_steps, incr, j>>
           ELSE IF ns.n = 0
           THEN /\ num_steps' = ns.n
                /\ uout' = Raised("ZeroDivisionError")
                /\ upc' = "done"
                /\ UNCHANGED <<incr, j>>
           ELSE /\ num_steps' = ns.n
                /\ incr' = Increment(a, b, ns.n)
                /\ j' = 0
                /\ upc' = "steps"
                /\ UNCHANGED uout
    /\ UNCHANGED <<definition, peak_points, rate_type, rate_value,
                   compression_positive, i, strain, stress, integrator, disp>>
    /\ UNCHANGED elfVars

\* lines 98-106: one step of the inner loop
Step ==
    /\ upc = "steps"
    /\ j < num_steps
    /\ LET d == Plus(disp, incr) IN
         /\ integrator' = Append(integrator, incr)
         /\ disp' = d
         /\ stress' = Append(stress, Recorded(compression_positive, GetTime(d)))
         /\ strain' = Append(strain, Recorded(compression_positive, d))
    /\ j' = j + 1
    /\ UNCHANGED <<upc, definition, peak_points, rate_type, rate_value,
                   compression_positive, i, num_steps, incr, uout>>
    /\ UNCHANGED elfVars

\* line 98: range(num_steps) is exhausted; line 86 takes the next i
StepsDone ==
    /\ upc = "steps"
    /\ j >= num_steps
    /\ i' = i + 1
    /\ upc' = "loop"
    /\ UNCHANGED <<definition, peak_points, rate_type, rate_value,
                   compression_positive, j, num_steps, incr, strain, stress,
                   integrator, disp, uout>>
    /\ UNCHANGED elfVars

\* lines 86 and 108-115: the outer loop is exhausted; (strain, stress)
ReturnResponse ==
    /\ upc = "loop"
    /\ i >= Len(peak_points) - 1
    /\ uout' = [kind |-> "return", value |-> <<strain, stress>>, exc |-> None]
    /\ upc' = "done"
    /\ UNCHANGED <<definition, peak_points, rate_type, rate_value,
                   compression_positive, i, j, num_steps, incr, strain, stress,
                   integrator, disp>>
    /\ UNCHANGED elfVars

NextUMA ==
    \/ FirstStep
    \/ NextPeak
    \/ Step
    \/ StepsDone
    \/ ReturnResponse

SpecUMA == InitUMA /\ [][NextUMA]_vars

TypeOK ==
    /\ pc \in {"idle", "select", "basic", "replace", "solve", "brentq", "return", "done"}
    /\ upc \in {"idle", "start", "loop", "steps", "done"}
    /\ round \in {1, 2}
    /\ outcome.kind \in {"running", "return", "raise"}
    /\ uout.kind \in {"running", "return", "raise"}
    /\ Len(calls) <= 1
    /\ Len(strain) = Len(stress)

\* ------------------------------------------------------------------ claims
\* the vocabulary of the claims: a recognized condition, a valid stiffness
\* ratio (non-negative or +inf), a pair of zeros and infinities
Recognized(s) == s \in {"inhibited", "uninhibited"}
Valid(g) == g >= 0
Degenerate(a, b) == a \in {0, inf} /\ b \in {0, inf}
ValidInputs == Valid(argA) /\ Valid(argB)
Finished == pc = "done"

\* the degenerate-case table of the specification, in tenths
DegenerateTable(s, a, b) ==
    IF s = "inhibited"
    THEN (IF a = inf /\ b = inf THEN 10 ELSE IF a = 0 /\ b = 0 THEN 5 ELSE 7)
    ELSE (IF a = inf /\ b = inf THEN inf ELSE IF a = 0 /\ b = 0 THEN 10 ELSE 20)

\* C1: for both conditions and every (GA, GB) of zeros and infinities the
\* call returns exactly the value of the degenerate-case table (inhibited:
\* 1.0, 0.7, 0.7, 0.5; uninhibited: inf, 2.0, 2.0, 1.0), brentq never called.
C1_DegenerateTable ==
    (Finished /\ Recognized(sidesway) /\ Degenerate(argA, argB))
        => /\ outcome.kind = "return"
           /\ outcome.value = DegenerateTable(sidesway, argA, argB)
           /\ calls = <<>>
C1_Witness ==
    /\ Finished /\ sidesway = "inhibited" /\ argA = inf /\ argB = 0
    /\ outcome.kind = "return" /\ outcome.value = 7

\* C2: an unrecognized sidesway value ends the call with ValueError for
\* every GA and GB: no K is returned, no default condition is selected and
\* brentq is never invoked.
C2_UnrecognizedRaises ==
    (pc # "idle" /\ ~Recognized(sidesway))
        => /\ pc \in {"select", "done"}
           /\ calls = <<>>
           /\ outcome.kind # "return"
           /\ bracket = <<>>
           /\ Finished => (outcome.kind = "raise" /\ outcome.exc = "ValueError")
C2_Witness ==
    /\ Finished /\ sidesway = "braced" /\ argA = 0 /\ argB = inf
    /\ outcome.kind = "raise" /\ outcome.exc = "ValueError"

SameParameters(p, q) ==
    /\ Len(p) = Len(q)
    /\ \/ p = q
       \/ Len(p) = 2 /\ q = <<p[2], p[1]>>
SameRequest(r, t) ==
    /\ r.f = t.f
    /\ r.a = t.a /\ r.b = t.b
    /\ SameParameters(r.args, t.args)

\* C3: for a recognized condition and valid GA, GB the call with the two
\* ratios exchanged does what the first call did: the same degenerate value
\* is returned, or brentq is invoked on the same equation with the same
\* parameters (in either order) over the same bracket.
C3_Symmetry ==
    (round = 2 /\ Finished /\ Recognized(sidesway) /\ ValidInputs)
        => /\ Len(calls) = Len(first.calls)
           /\ calls = <<>> =>
                /\ outcome.kind = "return" /\ first.outcome.kind = "return"
                /\ outcome.value = first.outcome.value
           /\ calls # <<>> => SameRequest(calls[1], first.calls[1])
C3_Witness ==
    /\ round = 2 /\ Finished /\ sidesway = "uninhibited"
    /\ argA = 0 /\ argB = 2
    /\ calls # <<>> /\ calls[1].args = <<2>> /\ first.calls[1].args = <<2>>

\* C4: a negative GA or GB never lets the call return a K (the call fails
\* with an invalid-argument error instead).
C4_NegativeRejected ==
    (Finished /\ Recognized(sidesway) /\ (argA < 0 \/ argB < 0))
        => outcome.kind # "return"

\* C5: for valid, non-degenerate inputs every returned K lies in (0, 1]
\* when sidesway is inhibited and in [1, inf) when it is uninhibited, brentq
\* returning a point of the bracket it was called with.
C5_Range ==
    (Finished /\ Recognized(sidesway) /\ ValidInputs
       /\ ~Degenerate(argA, argB) /\ outcome.kind = "return")
        => /\ sidesway = "inhibited" => (0 < outcome.value /\ outcome.value <= 10)
           /\ sidesway = "uninhibited" => (10 <= outcome.value /\ outcome.value < inf)
C5_Witness ==
    /\ Finished /\ sidesway = "inhibited" /\ argA = 1 /\ argB = inf
    /\ outcome.kind = "return" /\ outcome.value = nextafter(10, -inf)
    /\ calls # <<>> /\ calls[1].status = "returned"

\* C7: brentq is invoked at most once per call; when it raises, the call
\* ends raising that same exception and no value; every finished call has
\* either returned a K or raised.
C7_FailurePropagates ==
    /\ Len(calls) <= 1
    /\ Finished => outcome.kind \in {"return", "raise"}
    /\ (Finished /\ outcome.kind = "raise") => outcome.value = None
    /\ (Finished /\ outcome.kind = "return" /\ calls # <<>>) =>
           (calls[1].status = "returned" /\ outcome.value = K)
    /\ (calls # <<>> /\ calls[1].status = "raised") =>
           /\ Finished
           /\ outcome.kind = "raise"
           /\ outcome.exc = calls[1].exc
C7_Witness ==
    /\ Finished /\ calls # <<>> /\ calls[1].status = "raised"
    /\ calls[1].exc = "RuntimeError"
    /\ outcome.kind = "raise" /\ outcome.exc = "RuntimeError"
    /\ ValidInputs

OneZeroEquation(s) ==
    IF s = "inhibited" THEN "_sidesway_inhibited_one_zero"
    ELSE "_sidesway_uninhibited_one_zero"
FullEquation(s) ==
    IF s = "inhibited" THEN "_sidesway_inhibited" ELSE "_sidesway_uninhibited"
Surrogate(g) == IF g = inf THEN Large ELSE g

\* C8: in the general case brentq is called on the one-zero equation of the
\* given condition with the non-zero G alone when exactly one of GA, GB is
\* zero, and on the full equation of that condition with GA and GB (infinity
\* made large) when neither is zero; never on an equation of the other
\* condition.
C8_EquationSelection ==
    calls # <<>> =>
        /\ Recognized(sidesway)
        /\ ~Degenerate(argA, argB)
        /\ (argA = 0 /\ argB # 0) =>
              (calls[1].f = OneZeroEquation(sidesway) /\ calls[1].args = <<argB>>)
        /\ (argA # 0 /\ argB = 0) =>
              (calls[1].f = OneZeroEquation(sidesway) /\ calls[1].args = <<argA>>)
        /\ (argA # 0 /\ argB # 0) =>
              /\ calls[1].f = FullEquation(sidesway)
              /\ calls[1].args = <<Surrogate(argA), Surrogate(argB)>>
C8_Witness ==
    /\ calls # <<>> /\ sidesway = "uninhibited" /\ argA = 2 /\ argB = 0
    /\ calls[1].f = "_sidesway_uninhibited_one_zero" /\ calls[1].args = <<2>>

\* C9: once the degenerate cases are past, no GA or GB is infinite any more
\* when brentq is invoked (an infinite one has become 1e10), and for valid
\* inputs every stiffness parameter brentq receives is finite and non-zero.
C9_FiniteNonZeroParameters ==
    /\ pc \in {"solve", "brentq", "return"} =>
          /\ GA # inf /\ GB # inf
          /\ argA = inf => GA = Large
          /\ argB = inf => GB = Large
    /\ (calls # <<>> /\ ValidInputs) =>
          \A k \in DOMAIN calls[1].args :
              /\ calls[1].args[k] # 0
              /\ calls[1].args[k] # inf
              /\ 0 < calls[1].args[k] /\ calls[1].args[k] <= Large
C9_Witness ==
    /\ calls # <<>> /\ sidesway = "inhibited" /\ argA = 1 /\ argB = inf
    /\ calls[1].args = <<1, Large>>

Max0(n) == IF n > 0 THEN n ELSE 0

\* the sum of f(num_steps) over the consecutive pairs of peak points from
\* the k-th on, f being the identity (clip FALSE) or max(., 0) (clip TRUE)
RECURSIVE SumSteps(_, _)
SumSteps(k, clip) ==
    IF k >= Len(peak_points) THEN 0
    ELSE LET n == NumSteps(rate_type, rate_value,
                           peak_points[k], peak_points[k + 1]).n
         IN  (IF clip THEN Max0(n) ELSE n) + SumSteps(k + 1, clip)

\* the increments the integrator must have been given: peak_points[0], then
\* for each pair of peaks its steps of (peak[i+1] - peak[i]) / num_steps
RECURSIVE Repeat(_, _)
Repeat(x, n) == IF n <= 0 THEN <<>> ELSE <<x>> \o Repeat(x, n - 1)
RECURSIVE ExpectedIncrements(_)
ExpectedIncrements(k) ==
    IF k >= Len(peak_points) THEN <<>>
    ELSE LET n == NumSteps(rate_type, rate_value,
                           peak_points[k], peak_points[k + 1]).n
         IN  Repeat(Norm(<<peak_points[k + 1] - peak_points[k], n>>), n)
                 \o ExpectedIncrements(k + 1)

ReturnedResponse ==
    /\ upc = "done" /\ uout.kind = "return"
    /\ Len(peak_points) > 0
    /\ rate_type \in {"None", "StrainRate", "Steps"}

\* C10 as stated: the returned strain and stress lists have equal length,
\* 1 plus the sum of num_steps over the consecutive peak pairs, which is
\* len(peak_points) for 'None' and 1 + (len(peak_points) - 1) * rate_value
\* for 'Steps'; the first step goes to peak_points[0] and each later one
\* by (peak[i+1] - peak[i]) / num_steps.
C10_LengthAsStated ==
    ReturnedResponse =>
        /\ Len(uout.value[1]) = Len(uout.value[2])
        /\ Len(uout.value[1]) = 1 + SumSteps(1, FALSE)
        /\ rate_type = "None" => Len(uout.value[1]) = Len(peak_points)
        /\ rate_type = "Steps" =>
              Len(uout.value[1]) = 1 + (Len(peak_points) - 1) * rate_value
        /\ integrator = <<<<peak_points[1], 1>>>> \o ExpectedIncrements(1)

\* C10 amended: as stated, with a num_steps below zero counted as no step:
\* the length is 1 plus the sum of max(num_steps, 0), which is
\* 1 + (len(peak_points) - 1) * max(rate_value, 0) for 'Steps'; one
\* (strain, stress) pair is recorded per integrator step.
C10_LengthClipped ==
    ReturnedResponse =>
        /\ Len(uout.value[1]) = Len(uout.value[2])
        /\ Len(uout.value[1]) = Len(integrator)
        /\ Len(uout.value[1]) = 1 + SumSteps(1, TRUE)
        /\ rate_type = "None" => Len(uout.value[1]) = Len(peak_points)
        /\ rate_type = "Steps" =>
              Len(uout.value[1]) = 1 + (Len(peak_points) - 1) * Max0(rate_value)
        /\ integrator = <<<<peak_points[1], 1>>>> \o ExpectedIncrements(1)
C10_Witness ==
    /\ ReturnedResponse
    /\ rate_type = "Steps" /\ rate_value = 2
    /\ peak_points = <<1, -1, 0>>
    /\ Len(uout.value[1]) = 5
    /\ integrator = <<<<1, 1>>, <<-1, 1>>, <<-1, 1>>, <<1, 2>>, <<1, 2>>>>
====
